---- MODULE Spec2Model ----
(***************************************************************************)
(* The query-compilation facade InterpreterSelectQueryAnalyzer             *)
(* (src/src/Server/SSH/SSHEvent.h, lines 62-216): normalisation of the raw *)
(* query, the private execution context, the query tree and its passes,    *)
(* the lazily built query plan and the lowering of the plan to a pipeline. *)
(*                                                                         *)
(* Context, QueryTreePassManager, buildQueryTree, Planner and QueryPlan    *)
(* are used by that file but defined elsewhere; their behaviour is taken   *)
(* from spec.md (sections 4.2 - 4.5).                                      *)
(***************************************************************************)
EXTENDS Integers, Sequences, FiniteSets, TLC

\* Bounds of the model.
MaxDepth == 2        \* nesting depth of parenthesised subqueries in a raw query
MaxLimits == 2       \* storage limits held by one planner
MaxLowerings == 2    \* pipelines lowered from one instance

\* Compilation instances (objects of class InterpreterSelectQueryAnalyzer).
Instances == {"a", "b"}

\* The caller's context object.
Ambient == "ambient"

-----------------------------------------------------------------------------
(* Raw queries: AST nodes.                                                  *)

CanonicalKinds == {"SelectWithUnion", "Select"}

Texts == {"SELECT 1", "SELECT a, b"}

Leaf(k, t) == [kind |-> k, text |-> t, children |-> <<>>]

\* A node of a class other than the three the normalizer knows.
Insert == Leaf("Insert", "INSERT INTO t VALUES (1)")

\* ASTSelectQuery, ASTSelectWithUnionQuery and the other node.
Leaves ==
    {Leaf("Select", t) : t \in Texts}
        \cup {Leaf("SelectWithUnion", "SELECT 1 UNION ALL SELECT 2"), Insert}

\* ASTSubquery: a node whose children[0] is the wrapped query.
Subquery(cs) == [kind |-> "Subquery", text |-> "", children |-> cs]

\* A second child, which no parser produces but the node type allows.
ExtraChildren == {Leaf("Select", "SELECT 1"), Insert}

RECURSIVE ASTs(_)
ASTs(d) ==
    IF d = 0 THEN Leaves
    ELSE LET S == ASTs(d - 1)
         IN  S \cup {Subquery(<<c>>) : c \in S}
               \cup {Subquery(<<c, e>>) : c \in S, e \in ExtraChildren}

RawQueries == ASTs(MaxDepth)

\* IAST::formatForErrorMessage: the rendered form of a node.
formatForErrorMessage(query) == <<query.kind, query.text>>

\* A normalizer that returns the node itself for a subquery.
normalizeAndValidateQuery_NoUnwrap(query) ==
    IF query.kind \in CanonicalKinds \cup {"Subquery"}
    THEN [err |-> "none", value |-> query]
    ELSE [err |-> "UNSUPPORTED_METHOD", value |-> formatForErrorMessage(query)]

\* A normalizer that lets every node through.
normalizeAndValidateQuery_NoReject(query) ==
    IF query.kind = "Subquery"
    THEN [err |-> "none", value |-> query.children[1]]
    ELSE [err |-> "none", value |-> query]

\* normalizeAndValidateQuery, lines 73-89.  children[0] of the source is
\* children[1] of a TLA+ sequence.
normalizeAndValidateQuery(query) ==
    IF query.kind \in CanonicalKinds
    THEN [err |-> "none", value |-> query]
    ELSE IF query.kind = "Subquery"
    THEN [err |-> "none", value |-> query.children[1]]
    ELSE [err |-> "UNSUPPORTED_METHOD", value |-> formatForErrorMessage(query)]

-----------------------------------------------------------------------------
(* Compilation options (SelectQueryOptions).  An optional is a sequence of  *)
(* length 0 or 1.                                                           *)

Stages == {"Complete", "WithMergeableState"}

\* Values of the optional UInt32 members shard_num and shard_count.
ShardNums == {<<>>, <<0>>, <<3>>}

ShardCounts == {<<>>, <<0>>, <<8>>}

\* Every option value: the inputs of construction.
AllOptions ==
    [only_analyze : BOOLEAN,
     ignore_ast_optimizations : BOOLEAN,
     ignore_quota : BOOLEAN,
     to_stage : Stages,
     shard_num : ShardNums,
     shard_count : ShardCounts]

\* The options of the instances whose whole life is explored: every mode and
\* stage, compiled for no shard or for shard 3 of 8 (setShardInfo gives both).
LifecycleOptions ==
    {o \in AllOptions :
        /\ ~o.ignore_ast_optimizations
        /\ \/ o.shard_num = <<>> /\ o.shard_count = <<>>
           \/ o.shard_num = <<3>> /\ o.shard_count = <<8>>}

-----------------------------------------------------------------------------
(* Execution contexts: a heap of context objects.                           *)

NoScalars == [n \in {} |-> 0]

\* Block{{DataTypeUInt32().createColumnConst(1, v), DataTypeUInt32, name}}: a
\* constant column of one row.  v is a UInt32 already, so it is stored as it is.
Block(name, v) == [name |-> name, type |-> "UInt32", rows |-> 1, value |-> v]

Bind(scalars, name, block) ==
    [n \in DOMAIN scalars \cup {name} |-> IF n = name THEN block ELSE scalars[n]]

\* Context::createCopy: a new object `fresh` holding a copy of *context.
createCopy(heap, context, fresh) ==
    [heap |-> (fresh :> heap[context]) @@ heap, ptr |-> fresh]

\* Context::addSpecialScalar on the object `ptr`.
addSpecialScalar(heap, ptr, name, block) ==
    [heap EXCEPT ![ptr].special_scalars = Bind(@, name, block)]

\* A context builder that binds into the context it was given.
buildContext_NoCopy(heap, context, select_query_options, fresh) ==
    LET h1 == IF select_query_options.shard_num # <<>>
              THEN addSpecialScalar(heap, context, "_shard_num",
                       Block("_shard_num", select_query_options.shard_num[1]))
              ELSE heap
        h2 == IF select_query_options.shard_count # <<>>
              THEN addSpecialScalar(h1, context, "_shard_count",
                       Block("_shard_count", select_query_options.shard_count[1]))
              ELSE h1
    IN  [heap |-> h2, ptr |-> context]

\* A context builder that takes a shard value of 0 for an absent one.
buildContext_ZeroIsAbsent(heap, context, select_query_options, fresh) ==
    LET result_context == createCopy(heap, context, fresh)
        h1 == IF select_query_options.shard_num \notin {<<>>, <<0>>}
              THEN addSpecialScalar(result_context.heap, result_context.ptr, "_shard_num",
                       Block("_shard_num", select_query_options.shard_num[1]))
              ELSE result_context.heap
        h2 == IF select_query_options.shard_count \notin {<<>>, <<0>>}
              THEN addSpecialScalar(h1, result_context.ptr, "_shard_count",
                       Block("_shard_count", select_query_options.shard_count[1]))
              ELSE h1
    IN  [heap |-> h2, ptr |-> result_context.ptr]

\* A context builder that makes one copy of a context and hands it to every
\* compilation from that context.
buildContext_SharedCopy(heap, context, select_query_options, fresh) ==
    LET result_context ==
            IF "copy" \in DOMAIN heap
            THEN [heap |-> heap, ptr |-> "copy"]
            ELSE createCopy(heap, context, "copy")
        h1 == IF select_query_options.shard_num # <<>>
              THEN addSpecialScalar(result_context.heap, result_context.ptr, "_shard_num",
                       Block("_shard_num", select_query_options.shard_num[1]))
              ELSE result_context.heap
        h2 == IF select_query_options.shard_count # <<>>
              THEN addSpecialScalar(h1, result_context.ptr, "_shard_count",
                       Block("_shard_count", select_query_options.shard_count[1]))
              ELSE h1
    IN  [heap |-> h2, ptr |-> result_context.ptr]

\* buildContext, lines 91-105.
buildContext(heap, context, select_query_options, fresh) ==
    LET result_context == createCopy(heap, context, fresh)
        h1 == IF select_query_options.shard_num # <<>>
              THEN addSpecialScalar(result_context.heap, result_context.ptr, "_shard_num",
                       Block("_shard_num", select_query_options.shard_num[1]))
              ELSE result_context.heap
        h2 == IF select_query_options.shard_count # <<>>
              THEN addSpecialScalar(h1, result_context.ptr, "_shard_count",
                       Block("_shard_count", select_query_options.shard_count[1]))
              ELSE h1
    IN  [heap |-> h2, ptr |-> result_context.ptr]

\* The context of a session, and the private context of an enclosing
\* compilation (a nested query is compiled with the context of its parent).
SessionContext == [special_scalars |-> NoScalars, quota |-> "quota"]

EnclosingContext ==
    [special_scalars |->
        Bind(Bind(NoScalars, "_shard_num", Block("_shard_num", 1)),
             "_shard_count", Block("_shard_count", 2)),
     quota |-> "quota"]

AmbientContexts == {SessionContext, EnclosingContext}

-----------------------------------------------------------------------------
(* Calls made to the collaborators, in order: [ev, ctx, arg].               *)

Event(ev, ctx, arg) == [ev |-> ev, ctx |-> ctx, arg |-> arg]

Count(tr, ev) == Cardinality({k \in DOMAIN tr : tr[k].ev = ev})

-----------------------------------------------------------------------------
(* Query tree and passes.                                                   *)

\* The passes addQueryTreePasses registers, in order.
Passes == <<"QueryAnalysisPass", "SecondPass", "ThirdPass">>

\* buildQueryTree(query, context).
buildQueryTree(query, context) ==
    IF query.kind \in CanonicalKinds
    THEN [err |-> "none",
          value |-> [node |-> IF query.kind = "Select" THEN "QueryNode" ELSE "UnionNode",
                     text |-> query.text, passes |-> <<>>, context |-> context]]
    ELSE [err |-> "BuilderFailed", value |-> formatForErrorMessage(query)]

\* QueryTreePassManager::run(query_tree, up_to_pass_index): passes [0, up_to).
PassManagerRun(query_tree, up_to_pass_index) ==
    [query_tree EXCEPT !.passes = @ \o SubSeq(Passes, 1, up_to_pass_index)]

PassEvents(context, up_to_pass_index) ==
    [k \in 1..up_to_pass_index |-> Event("pass", context, Passes[k])]

\* A driver that runs every pass whatever the options say.
buildQueryTreeAndRunPasses_AllPasses(query, select_query_options, context) ==
    LET query_tree == buildQueryTree(query, context)
        built == <<Event("buildQueryTree", context, query)>>
    IN  IF query_tree.err # "none"
        THEN [err |-> query_tree.err, value |-> query_tree.value, calls |-> built]
        ELSE [err |-> "none",
              value |-> PassManagerRun(query_tree.value, Len(Passes)),
              calls |-> built \o PassEvents(context, Len(Passes))]

\* buildQueryTreeAndRunPasses, lines 107-120: [err, value, calls].
buildQueryTreeAndRunPasses(query, select_query_options, context) ==
    LET query_tree == buildQueryTree(query, context)
        up_to == IF select_query_options.ignore_ast_optimizations THEN 1 ELSE Len(Passes)
        built == <<Event("buildQueryTree", context, query)>>
    IN  IF query_tree.err # "none"
        THEN [err |-> query_tree.err, value |-> query_tree.value, calls |-> built]
        ELSE [err |-> "none",
              value |-> PassManagerRun(query_tree.value, up_to),
              calls |-> built \o PassEvents(context, up_to)]

\* QueryTreeNode::toAST: the display form of a resolved representation.
toAST(query_tree) ==
    [kind |-> IF query_tree.node = "QueryNode" THEN "Select" ELSE "SelectWithUnion",
     text |-> query_tree.text, children |-> <<>>]

\* Representations resolved by an earlier compilation.
ResolvedTrees ==
    {PassManagerRun(buildQueryTree(Leaf("Select", t), Ambient).value, Len(Passes)) :
        t \in Texts}

\* buildPlannerConfiguration, lines 122-125.
buildPlannerConfiguration(select_query_options) ==
    [only_analyze |-> select_query_options.only_analyze]

-----------------------------------------------------------------------------
(* Planner and QueryPlan (spec.md, section 4.4): Unbuilt -> Built ->        *)
(* Extracted.                                                               *)

NoPlan == [initialized |-> FALSE, header |-> <<>>, storage_limits |-> <<>>,
           only_analyze |-> FALSE]

\* Storage limits, and the lists addStorageLimits is called with.
Limits == {"limit1", "limit2"}

LimitLists == {<<l>> : l \in Limits} \cup {<<"limit1", "limit2">>}

\* The header of the root of the plan of a representation.
HeaderOf(query_tree) ==
    IF query_tree.text = "SELECT a, b" THEN <<"a", "b">> ELSE <<"1">>

\* Planner::Planner(query_tree, select_query_options, configuration).
Planner(query_tree_, configuration) ==
    [state |-> "Unbuilt", query_tree |-> query_tree_, config |-> configuration,
     storage_limits |-> <<>>, query_plan |-> NoPlan]

\* Planner::buildQueryPlanIfNeeded: [planner, trace, err].
Planner_buildQueryPlanIfNeeded(p, tr) ==
    CASE p.state = "Unbuilt" ->
            [planner |-> [p EXCEPT !.state = "Built",
                                   !.query_plan = [initialized |-> TRUE,
                                                   header |-> HeaderOf(p.query_tree),
                                                   storage_limits |-> p.storage_limits,
                                                   only_analyze |-> p.config.only_analyze]],
             trace |-> Append(tr, Event("buildPlan", p.query_tree.context, p.storage_limits)),
             err |-> "none"]
      [] p.state = "Built" -> [planner |-> p, trace |-> tr, err |-> "none"]
      [] OTHER -> [planner |-> p, trace |-> tr, err |-> "PlannerReused"]

\* Planner::getQueryPlan: [err, value].
Planner_getQueryPlan(p) ==
    IF p.state = "Extracted"
    THEN [err |-> "PlannerReused", value |-> NoPlan]
    ELSE [err |-> "none", value |-> p.query_plan]

\* Planner::extractQueryPlan &&: [planner, err, value].
Planner_extractQueryPlan(p) ==
    IF p.state = "Extracted"
    THEN [planner |-> p, err |-> "PlannerReused", value |-> NoPlan]
    ELSE [planner |-> [p EXCEPT !.state = "Extracted", !.query_plan = NoPlan],
          err |-> "none", value |-> p.query_plan]

\* Planner::addStorageLimits: [planner, err].
Planner_addStorageLimits(p, limits) ==
    IF p.state = "Unbuilt"
    THEN [planner |-> [p EXCEPT !.storage_limits = @ \o limits], err |-> "none"]
    ELSE [planner |-> p, err |-> "LimitsAfterBuild"]

-----------------------------------------------------------------------------
(* The methods of InterpreterSelectQueryAnalyzer on the planner p, the      *)
(* calls made so far tr and the instance's context; each yields             *)
(* [planner, trace, err, value].                                            *)

NoValue == <<>>

Outcome(p, tr, err, value) == [planner |-> p, trace |-> tr, err |-> err, value |-> value]

\* A getSampleBlock that builds the plan whether or not one is cached.
getSampleBlock_Rebuild(p, tr) ==
    LET b == Planner_buildQueryPlanIfNeeded(
                 IF p.state = "Built" THEN [p EXCEPT !.state = "Unbuilt"] ELSE p, tr)
        plan == Planner_getQueryPlan(b.planner)
    IN  IF b.err # "none" THEN Outcome(b.planner, b.trace, b.err, NoValue)
        ELSE Outcome(b.planner, b.trace, "none", plan.value.header)

\* A getSampleBlock that, in analyze-only mode, reads the header of whatever
\* plan the planner holds, without building one.
getSampleBlock_AnalyzeWithoutPlan(p, tr) ==
    LET b == IF p.config.only_analyze
             THEN [planner |-> p, trace |-> tr, err |-> "none"]
             ELSE Planner_buildQueryPlanIfNeeded(p, tr)
        plan == Planner_getQueryPlan(b.planner)
    IN  IF b.err # "none" THEN Outcome(b.planner, b.trace, b.err, NoValue)
        ELSE IF plan.err # "none" THEN Outcome(b.planner, b.trace, plan.err, NoValue)
        ELSE Outcome(b.planner, b.trace, "none", plan.value.header)

\* getSampleBlock(), lines 175-179.
getSampleBlock(p, tr) ==
    LET b == Planner_buildQueryPlanIfNeeded(p, tr)
        plan == Planner_getQueryPlan(b.planner)
    IN  IF b.err # "none" THEN Outcome(b.planner, b.trace, b.err, NoValue)
        ELSE IF plan.err # "none" THEN Outcome(b.planner, b.trace, plan.err, NoValue)
        ELSE Outcome(b.planner, b.trace, "none", plan.value.header)

\* A buildQueryPipeline that lowers whatever plan the planner holds.
buildQueryPipeline_NoBuild(p, tr, context) ==
    LET query_plan == Planner_getQueryPlan(p)
    IN  IF query_plan.err # "none" THEN Outcome(p, tr, query_plan.err, NoValue)
        ELSE Outcome(p, Append(tr, Event("lower", context, query_plan.value)), "none",
                     [plan |-> query_plan.value, settings |-> context])

\* A buildQueryPipeline that lowers the plan on the first call only.
buildQueryPipeline_Cached(p, tr, context) ==
    LET b == Planner_buildQueryPlanIfNeeded(p, tr)
        query_plan == Planner_getQueryPlan(b.planner)
    IN  IF b.err # "none" THEN Outcome(b.planner, b.trace, b.err, NoValue)
        ELSE Outcome(b.planner,
                     IF Count(b.trace, "lower") = 0
                     THEN Append(b.trace, Event("lower", context, query_plan.value))
                     ELSE b.trace,
                     "none",
                     [plan |-> query_plan.value, settings |-> context])

\* A buildQueryPipeline that moves the steps of the plan into the pipeline.
buildQueryPipeline_ConsumesPlan(p, tr, context) ==
    LET b == Planner_buildQueryPlanIfNeeded(p, tr)
        query_plan == Planner_getQueryPlan(b.planner)
    IN  IF b.err # "none" THEN Outcome(b.planner, b.trace, b.err, NoValue)
        ELSE IF query_plan.err # "none"
        THEN Outcome(b.planner, b.trace, query_plan.err, NoValue)
        ELSE Outcome([b.planner EXCEPT !.query_plan.header = <<>>],
                     Append(b.trace, Event("lower", context, query_plan.value)),
                     "none",
                     [plan |-> query_plan.value, settings |-> context])

\* buildQueryPipeline(), lines 200-209.
buildQueryPipeline(p, tr, context) ==
    LET b == Planner_buildQueryPlanIfNeeded(p, tr)
        query_plan == Planner_getQueryPlan(b.planner)
    IN  IF b.err # "none" THEN Outcome(b.planner, b.trace, b.err, NoValue)
        ELSE IF query_plan.err # "none"
        THEN Outcome(b.planner, b.trace, query_plan.err, NoValue)
        ELSE Outcome(b.planner,
                     Append(b.trace, Event("lower", context, query_plan.value)),
                     "none",
                     [plan |-> query_plan.value, settings |-> context])

\* An execute that builds a pipeline to check the plan and then the one it
\* returns.
execute_BuildsTwice(p, tr, context, select_query_options, heap) ==
    LET checked == buildQueryPipeline(p, tr, context)
        pipeline_builder == buildQueryPipeline(checked.planner, checked.trace, context)
    IN  IF checked.err # "none" THEN checked
        ELSE [pipeline_builder EXCEPT !.value =
                [pipeline |-> pipeline_builder.value,
                 quota |-> IF ~select_query_options.ignore_quota
                              /\ select_query_options.to_stage = "Complete"
                           THEN <<heap[context].quota>>
                           ELSE <<>>]]

\* An execute that attaches the quota at every stage.
execute_QuotaAtEveryStage(p, tr, context, select_query_options, heap) ==
    LET pipeline_builder == buildQueryPipeline(p, tr, context)
    IN  IF pipeline_builder.err # "none" THEN pipeline_builder
        ELSE [pipeline_builder EXCEPT !.value =
                [pipeline |-> pipeline_builder.value,
                 quota |-> IF ~select_query_options.ignore_quota
                           THEN <<heap[context].quota>>
                           ELSE <<>>]]

\* execute(), lines 181-192.
execute(p, tr, context, select_query_options, heap) ==
    LET pipeline_builder == buildQueryPipeline(p, tr, context)
    IN  IF pipeline_builder.err # "none" THEN pipeline_builder
        ELSE [pipeline_builder EXCEPT !.value =
                [pipeline |-> pipeline_builder.value,
                 quota |-> IF ~select_query_options.ignore_quota
                              /\ select_query_options.to_stage = "Complete"
                           THEN <<heap[context].quota>>
                           ELSE <<>>]]

\* An extractQueryPlan that hands out the plan and leaves it in the planner.
extractQueryPlan_Copy(p, tr) ==
    LET b == Planner_buildQueryPlanIfNeeded(p, tr)
        plan == Planner_getQueryPlan(b.planner)
    IN  IF b.err # "none" THEN Outcome(b.planner, b.trace, b.err, NoValue)
        ELSE Outcome(b.planner, b.trace, plan.err, plan.value)

\* extractQueryPlan() &&, lines 194-198.
extractQueryPlan(p, tr) ==
    LET b == Planner_buildQueryPlanIfNeeded(p, tr)
        e == Planner_extractQueryPlan(b.planner)
    IN  IF b.err # "none" THEN Outcome(b.planner, b.trace, b.err, NoValue)
        ELSE Outcome(e.planner, b.trace, e.err, e.value)

\* An addStorageLimits that appends to the list without asking the planner.
addStorageLimits_Unchecked(p, tr, storage_limits) ==
    Outcome([p EXCEPT !.storage_limits = @ \o storage_limits], tr, "none", NoValue)

\* An addStorageLimits that registers the first limit of the list only.
addStorageLimits_FirstOnly(p, tr, storage_limits) ==
    LET r == Planner_addStorageLimits(p, SubSeq(storage_limits, 1, 1))
    IN  Outcome(r.planner, tr, r.err, NoValue)

\* addStorageLimits(), lines 211-214.
addStorageLimits(p, tr, storage_limits) ==
    LET r == Planner_addStorageLimits(p, storage_limits)
    IN  Outcome(r.planner, tr, r.err, NoValue)

\* The copy of the caller's options that the static getSampleBlock compiles
\* with, and the caller's options after it was made.
select_query_options_copy_Unforced(select_query_options) ==
    [copy |-> select_query_options, caller |-> select_query_options]

\* auto select_query_options_copy = select_query_options;
\* select_query_options_copy.only_analyze = true;  (lines 157-158, 168-169)
select_query_options_copy(select_query_options) ==
    [copy |-> [select_query_options EXCEPT !.only_analyze = TRUE],
     caller |-> select_query_options]

-----------------------------------------------------------------------------
(* State.                                                                   *)

VARIABLES
    contexts,               \* the context objects: id -> content
    status,                 \* per instance: "none", "ready" or "failed"
    query,                  \* per instance: member query
    context,                \* per instance: member context (a context id)
    select_query_options,   \* per instance: member select_query_options
    query_tree,             \* per instance: member query_tree
    planner,                \* per instance: member planner
    trace,                  \* per instance: the collaborator calls made so far
    result,                 \* per instance: outcome of the last call on it
    observed                \* per instance: what its caller has seen (history)

vars == <<contexts, status, query, context, select_query_options, query_tree,
          planner, trace, result, observed>>

members == <<status, query, context, select_query_options, query_tree>>

NoAST == Leaf("none", "")

NoOptions ==
    [only_analyze |-> FALSE, ignore_ast_optimizations |-> FALSE, ignore_quota |-> FALSE,
     to_stage |-> "Complete", shard_num |-> <<>>, shard_count |-> <<>>]

NoTree == [node |-> "none", text |-> "", passes |-> <<>>, context |-> "null"]

NoPlanner ==
    [state |-> "none", query_tree |-> NoTree, config |-> [only_analyze |-> FALSE],
     storage_limits |-> <<>>, query_plan |-> NoPlan]

Result(op, arg, err, value) == [op |-> op, arg |-> arg, err |-> err, value |-> value]

\* What the caller of an instance has seen of it: the schemas getSampleBlock
\* returned, each with the number of pipelines the caller had by then, the
\* storage limits addStorageLimits accepted, in order, and the number of
\* pipelines buildQueryPipeline and execute returned.
NoObservations == [schemas |-> {}, added |-> <<>>, pipelines |-> 0]

Observe(seen, op, arg, r) ==
    IF r.err # "none" THEN seen
    ELSE CASE op = "getSampleBlock" -> [seen EXCEPT !.schemas = @ \cup {<<r.value, seen.pipelines>>}]
           [] op = "addStorageLimits" -> [seen EXCEPT !.added = @ \o arg]
           [] op \in {"buildQueryPipeline", "execute"} -> [seen EXCEPT !.pipelines = @ + 1]
           [] OTHER -> seen

Init ==
    /\ contexts \in {(Ambient :> c) : c \in AmbientContexts}
    /\ status = [i \in Instances |-> "none"]
    /\ query = [i \in Instances |-> NoAST]
    /\ context = [i \in Instances |-> "null"]
    /\ select_query_options = [i \in Instances |-> NoOptions]
    /\ query_tree = [i \in Instances |-> NoTree]
    /\ planner = [i \in Instances |-> NoPlanner]
    /\ trace = [i \in Instances |-> <<>>]
    /\ result = [i \in Instances |-> Result("none", <<>>, "none", NoValue)]
    /\ observed = [i \in Instances |-> NoObservations]

\* The heap after the object ptr has lost its only owner.
Release(heap, ptr) == [c \in DOMAIN heap \ {ptr} |-> heap[c]]

\* Construction that throws: no instance, and the private context is released.
Throw(i, op, arg, err, message, heap, calls) ==
    /\ status' = [status EXCEPT ![i] = "failed"]
    /\ contexts' = heap
    /\ trace' = [trace EXCEPT ![i] = calls]
    /\ result' = [result EXCEPT ![i] = Result(op, arg, err, message)]
    /\ UNCHANGED <<query, context, select_query_options, query_tree, planner, observed>>

\* A constructor from an AST that builds the query tree and runs the passes
\* with the context it was given instead of the member.
ConstructFromAST_CallersContext(i, query_, context_, select_query_options_) ==
    /\ status[i] = "none"
    /\ LET n == normalizeAndValidateQuery(query_)
           c == buildContext(contexts, context_, select_query_options_, i)
           t == buildQueryTreeAndRunPasses(n.value, select_query_options_, context_)
           calls == <<Event("normalize", "null", "")>>
       IN  IF n.err # "none"
           THEN Throw(i, "construct", query_, n.err, n.value, contexts, calls)
           ELSE IF t.err # "none"
           THEN Throw(i, "construct", query_, t.err, t.value,
                      IF c.ptr = context_ THEN c.heap ELSE Release(c.heap, c.ptr),
                      calls \o <<Event("buildContext", context_, "")>> \o t.calls)
           ELSE /\ status' = [status EXCEPT ![i] = "ready"]
                /\ query' = [query EXCEPT ![i] = n.value]
                /\ contexts' = c.heap
                /\ context' = [context EXCEPT ![i] = c.ptr]
                /\ select_query_options' =
                       [select_query_options EXCEPT ![i] = select_query_options_]
                /\ query_tree' = [query_tree EXCEPT ![i] = t.value]
                /\ planner' = [planner EXCEPT ![i] =
                       Planner(t.value, buildPlannerConfiguration(select_query_options_))]
                /\ trace' = [trace EXCEPT ![i] =
                       calls \o <<Event("buildContext", context_, "")>> \o t.calls
                             \o <<Event("Planner", c.ptr, "")>>]
                /\ result' = [result EXCEPT ![i] =
                       Result("construct", query_, "none", NoValue)]
                /\ UNCHANGED observed

\* Constructor from an AST, lines 129-139.
ConstructFromAST(i, query_, context_, select_query_options_) ==
    /\ status[i] = "none"
    /\ LET n == normalizeAndValidateQuery(query_)
           c == buildContext(contexts, context_, select_query_options_, i)
           t == buildQueryTreeAndRunPasses(n.value, select_query_options_, c.ptr)
           calls == <<Event("normalize", "null", "")>>
       IN  IF n.err # "none"
           THEN Throw(i, "construct", query_, n.err, n.value, contexts, calls)
           ELSE IF t.err # "none"
           THEN Throw(i, "construct", query_, t.err, t.value,
                      IF c.ptr = context_ THEN c.heap ELSE Release(c.heap, c.ptr),
                      calls \o <<Event("buildContext", context_, "")>> \o t.calls)
           ELSE /\ status' = [status EXCEPT ![i] = "ready"]
                /\ query' = [query EXCEPT ![i] = n.value]
                /\ contexts' = c.heap
                /\ context' = [context EXCEPT ![i] = c.ptr]
                /\ select_query_options' =
                       [select_query_options EXCEPT ![i] = select_query_options_]
                /\ query_tree' = [query_tree EXCEPT ![i] = t.value]
                /\ planner' = [planner EXCEPT ![i] =
                       Planner(t.value, buildPlannerConfiguration(select_query_options_))]
                /\ trace' = [trace EXCEPT ![i] =
                       calls \o <<Event("buildContext", context_, "")>> \o t.calls
                             \o <<Event("Planner", c.ptr, "")>>]
                /\ result' = [result EXCEPT ![i] =
                       Result("construct", query_, "none", NoValue)]
                /\ UNCHANGED observed

\* A constructor from a query tree that runs the passes on the tree it is given.
ConstructFromTree_RunsPasses(i, query_tree_, context_, select_query_options_) ==
    /\ status[i] = "none"
    /\ LET c == buildContext(contexts, context_, select_query_options_, i)
           t == PassManagerRun(query_tree_, Len(Passes))
       IN  /\ status' = [status EXCEPT ![i] = "ready"]
           /\ query' = [query EXCEPT ![i] = toAST(query_tree_)]
           /\ contexts' = c.heap
           /\ context' = [context EXCEPT ![i] = c.ptr]
           /\ select_query_options' =
                  [select_query_options EXCEPT ![i] = select_query_options_]
           /\ query_tree' = [query_tree EXCEPT ![i] = t]
           /\ planner' = [planner EXCEPT ![i] =
                  Planner(t, buildPlannerConfiguration(select_query_options_))]
           /\ trace' = [trace EXCEPT ![i] =
                  <<Event("toAST", "null", ""), Event("buildContext", context_, "")>>
                     \o PassEvents(c.ptr, Len(Passes))
                     \o <<Event("Planner", c.ptr, "")>>]
           /\ result' = [result EXCEPT ![i] =
                  Result("constructFromTree", query_tree_, "none", NoValue)]
           /\ UNCHANGED observed

\* Constructor from a query tree, lines 141-151.
ConstructFromTree(i, query_tree_, context_, select_query_options_) ==
    /\ status[i] = "none"
    /\ LET c == buildContext(contexts, context_, select_query_options_, i)
       IN  /\ status' = [status EXCEPT ![i] = "ready"]
           /\ query' = [query EXCEPT ![i] = toAST(query_tree_)]
           /\ contexts' = c.heap
           /\ context' = [context EXCEPT ![i] = c.ptr]
           /\ select_query_options' =
                  [select_query_options EXCEPT ![i] = select_query_options_]
           /\ query_tree' = [query_tree EXCEPT ![i] = query_tree_]
           /\ planner' = [planner EXCEPT ![i] =
                  Planner(query_tree_, buildPlannerConfiguration(select_query_options_))]
           /\ trace' = [trace EXCEPT ![i] =
                  <<Event("toAST", "null", ""), Event("buildContext", context_, ""),
                    Event("Planner", c.ptr, "")>>]
           /\ result' = [result EXCEPT ![i] =
                  Result("constructFromTree", query_tree_, "none", NoValue)]
           /\ UNCHANGED observed

\* What a static getSampleBlock was called with, and the caller's options
\* when it came back.
StaticArg(query_, given, after) == [query |-> query_, given |-> given, after |-> after]

\* The end of a static getSampleBlock whose instance was constructed with
\* members m and planner p after the calls tr: getSampleBlock() on it, then
\* its destruction, which releases its context.
ReturnSampleBlock(i, op, arg, m, p, tr, heap, context_) ==
    LET r == getSampleBlock(p, tr)
    IN  /\ status' = [status EXCEPT ![i] = "discarded"]
        /\ query' = [query EXCEPT ![i] = m.query]
        /\ context' = [context EXCEPT ![i] = m.context]
        /\ select_query_options' =
               [select_query_options EXCEPT ![i] = m.select_query_options]
        /\ query_tree' = [query_tree EXCEPT ![i] = m.query_tree]
        /\ planner' = [planner EXCEPT ![i] = r.planner]
        /\ trace' = [trace EXCEPT ![i] = r.trace]
        /\ result' = [result EXCEPT ![i] = Result(op, arg, r.err, r.value)]
        /\ contexts' = IF m.context = context_ THEN heap ELSE Release(heap, m.context)
        /\ UNCHANGED observed

\* Static getSampleBlock(query, context, select_query_options), lines 153-162.
GetSampleBlockOfAST(i, query_, context_, select_query_options_) ==
    /\ status[i] = "none"
    /\ LET o == select_query_options_copy(select_query_options_)
           arg == StaticArg(query_, select_query_options_, o.caller)
           n == normalizeAndValidateQuery(query_)
           c == buildContext(contexts, context_, o.copy, i)
           t == buildQueryTreeAndRunPasses(n.value, o.copy, c.ptr)
           calls == <<Event("normalize", "null", "")>>
       IN  IF n.err # "none"
           THEN Throw(i, "getSampleBlockOfAST", arg, n.err, n.value, contexts, calls)
           ELSE IF t.err # "none"
           THEN Throw(i, "getSampleBlockOfAST", arg, t.err, t.value,
                      IF c.ptr = context_ THEN c.heap ELSE Release(c.heap, c.ptr),
                      calls \o <<Event("buildContext", context_, "")>> \o t.calls)
           ELSE ReturnSampleBlock(i, "getSampleBlockOfAST", arg,
                    [query |-> n.value, context |-> c.ptr,
                     select_query_options |-> o.copy, query_tree |-> t.value],
                    Planner(t.value, buildPlannerConfiguration(o.copy)),
                    calls \o <<Event("buildContext", context_, "")>> \o t.calls
                          \o <<Event("Planner", c.ptr, "")>>,
                    c.heap, context_)

\* Static getSampleBlock(query_tree, context, select_query_options), lines
\* 164-173.
GetSampleBlockOfTree(i, query_tree_, context_, select_query_options_) ==
    /\ status[i] = "none"
    /\ LET o == select_query_options_copy(select_query_options_)
           c == buildContext(contexts, context_, o.copy, i)
       IN  ReturnSampleBlock(i, "getSampleBlockOfTree",
               StaticArg(query_tree_, select_query_options_, o.caller),
               [query |-> toAST(query_tree_), context |-> c.ptr,
                select_query_options |-> o.copy, query_tree |-> query_tree_],
               Planner(query_tree_, buildPlannerConfiguration(o.copy)),
               <<Event("toAST", "null", ""), Event("buildContext", context_, ""),
                 Event("Planner", c.ptr, "")>>,
               c.heap, context_)

\* The effect on the instance i of a method that ends with outcome r.
Returns(i, op, arg, r) ==
    /\ planner' = [planner EXCEPT ![i] = r.planner]
    /\ trace' = [trace EXCEPT ![i] = r.trace]
    /\ result' = [result EXCEPT ![i] = Result(op, arg, r.err, r.value)]
    /\ UNCHANGED <<contexts, members>>

\* A call of a method on the instance i, with outcome r.
Call(i, op, arg, r) ==
    /\ Returns(i, op, arg, r)
    /\ UNCHANGED observed

\* The same call, its caller keeping what it gave and what came back.
CallObserved(i, op, given, r) ==
    /\ Returns(i, op, <<>>, r)
    /\ observed' = [observed EXCEPT ![i] = Observe(@, op, given, r)]

Lowerings(i) == Count(trace[i], "lower")

GetSampleBlock(i) ==
    /\ status[i] = "ready"
    /\ Call(i, "getSampleBlock", <<>>, getSampleBlock(planner[i], trace[i]))

BuildQueryPipeline(i) ==
    /\ status[i] = "ready"
    /\ Lowerings(i) < MaxLowerings \/ planner[i].state = "Extracted"
    /\ Call(i, "buildQueryPipeline", <<>>,
            buildQueryPipeline(planner[i], trace[i], context[i]))

Execute(i) ==
    /\ status[i] = "ready"
    /\ Lowerings(i) < MaxLowerings \/ planner[i].state = "Extracted"
    /\ Call(i, "execute", <<>>,
            execute(planner[i], trace[i], context[i], select_query_options[i], contexts))

ExtractQueryPlan(i) ==
    /\ status[i] = "ready"
    /\ Call(i, "extractQueryPlan", <<>>, extractQueryPlan(planner[i], trace[i]))

AddStorageLimits(i, storage_limits) ==
    /\ status[i] = "ready"
    /\ Len(planner[i].storage_limits) + Len(storage_limits) <= MaxLimits
          \/ planner[i].state # "Unbuilt"
    /\ Call(i, "addStorageLimits", <<>>,
            addStorageLimits(planner[i], trace[i], storage_limits))

\* The steps of the instances in I, constructed with options from O.
Step(I, O) ==
    \E i \in I :
        \/ \E q \in RawQueries, o \in O : ConstructFromAST(i, q, Ambient, o)
        \/ \E t \in ResolvedTrees, o \in O : ConstructFromTree(i, t, Ambient, o)
        \/ GetSampleBlock(i)
        \/ BuildQueryPipeline(i)
        \/ Execute(i)
        \/ ExtractQueryPlan(i)
        \/ \E l \in LimitLists : AddStorageLimits(i, l)

\* One compilation instance, through its whole life.
Next == Step({"a"}, LifecycleOptions)

Spec == Init /\ [][Next]_vars

\* The methods again, with the caller keeping a record of each call.
GetSampleBlockObserved(i) ==
    /\ status[i] = "ready"
    /\ CallObserved(i, "getSampleBlock", <<>>, getSampleBlock(planner[i], trace[i]))

BuildQueryPipelineObserved(i) ==
    /\ status[i] = "ready"
    /\ Lowerings(i) < MaxLowerings \/ planner[i].state = "Extracted"
    /\ CallObserved(i, "buildQueryPipeline", <<>>,
                    buildQueryPipeline(planner[i], trace[i], context[i]))

ExecuteObserved(i) ==
    /\ status[i] = "ready"
    /\ Lowerings(i) < MaxLowerings \/ planner[i].state = "Extracted"
    /\ CallObserved(i, "execute", <<>>,
                    execute(planner[i], trace[i], context[i], select_query_options[i],
                            contexts))

AddStorageLimitsObserved(i, storage_limits) ==
    /\ status[i] = "ready"
    /\ Len(planner[i].storage_limits) + Len(storage_limits) <= MaxLimits
          \/ planner[i].state # "Unbuilt"
    /\ CallObserved(i, "addStorageLimits", storage_limits,
                    addStorageLimits(planner[i], trace[i], storage_limits))

\* The options of the observed instances: both modes, up to the last stage
\* with the quota, for no shard.
ObservedOptions ==
    {o \in LifecycleOptions :
        o.shard_num = <<>> /\ o.to_stage = "Complete" /\ ~o.ignore_quota}

\* One compilation instance and what its caller sees of it.
NextObserved ==
    \E i \in {"a"} :
        \/ \E q \in RawQueries, o \in ObservedOptions : ConstructFromAST(i, q, Ambient, o)
        \/ \E t \in ResolvedTrees, o \in ObservedOptions :
              ConstructFromTree(i, t, Ambient, o)
        \/ GetSampleBlockObserved(i)
        \/ BuildQueryPipelineObserved(i)
        \/ ExecuteObserved(i)
        \/ ExtractQueryPlan(i)
        \/ \E l \in LimitLists : AddStorageLimitsObserved(i, l)

SpecObserved == Init /\ [][NextObserved]_vars

ModeQueries == {Leaf("Select", t) : t \in Texts}

\* Two instances compiled from the same caller's context, in either mode.
NextModes ==
    \E i \in Instances :
        \/ \E q \in ModeQueries, o \in ObservedOptions : ConstructFromAST(i, q, Ambient, o)
        \/ GetSampleBlock(i)
        \/ BuildQueryPipeline(i)

SpecModes == Init /\ [][NextModes]_vars

\* The options of two instances compiled side by side: for no shard, or for
\* shard 3 of 8.
PairOptions == {o \in ObservedOptions : ~o.only_analyze}
                  \cup {[o EXCEPT !.shard_num = <<3>>, !.shard_count = <<8>>] :
                           o \in {p \in ObservedOptions : ~p.only_analyze}}

PairQueries == {Leaf("Select", "SELECT a, b")}

PairLimits == {<<"limit1", "limit2">>}

\* Two instances compiled from the same caller's context, their operations
\* interleaved in every way.
NextPair ==
    \E i \in Instances :
        \/ \E q \in PairQueries, o \in PairOptions : ConstructFromAST(i, q, Ambient, o)
        \/ GetSampleBlock(i)
        \/ BuildQueryPipeline(i)
        \/ Execute(i)
        \/ ExtractQueryPlan(i)
        \/ \E l \in PairLimits : AddStorageLimits(i, l)

SpecPair == Init /\ [][NextPair]_vars

\* Construction alone, with every option value.
NextConstruct ==
    \E i \in {"a"} :
        \/ \E q \in RawQueries, o \in AllOptions : ConstructFromAST(i, q, Ambient, o)
        \/ \E t \in ResolvedTrees, o \in AllOptions : ConstructFromTree(i, t, Ambient, o)

SpecConstruct == Init /\ [][NextConstruct]_vars

\* The static entry points alone, with every option value.
NextStatic ==
    \E i \in {"a"} :
        \/ /\ status[i] = "none"
           /\ \E q \in RawQueries, o \in AllOptions : GetSampleBlockOfAST(i, q, Ambient, o)
        \/ /\ status[i] = "none"
           /\ \E t \in ResolvedTrees, o \in AllOptions :
                 GetSampleBlockOfTree(i, t, Ambient, o)

SpecStatic == Init /\ [][NextStatic]_vars

-----------------------------------------------------------------------------
(* Properties.                                                              *)

PlanOps == {"getSampleBlock", "buildQueryPipeline", "execute", "extractQueryPlan"}

PipelineOps == {"buildQueryPipeline", "execute"}

Builds(i) == Count(trace[i], "buildPlan")

\* This step is a call, on instance i, of one of the operations ops.  (A call
\* that changes nothing of the instance and ends as the call before it did is
\* a stuttering step.)
CallOf(i, ops) ==
    /\ result'[i].op \in ops
    /\ <<planner'[i], trace'[i], result'[i].op, result'[i].err>>
          # <<planner[i], trace[i], result[i].op, result[i].err>>

PrivateScalars(i) == contexts[context[i]].special_scalars

\* C1: over any sequence of getSampleBlock, buildQueryPipeline, execute and
\* extractQueryPlan calls on an instance the plan is built at most once: the
\* first call that needs it takes the planner out of Unbuilt with one build,
\* and a call made while Built builds nothing and leaves the cached plan as
\* it is (extractQueryPlan hands out that very plan).
C1_PlanBuiltAtMostOnce ==
    [][\A i \in Instances :
        /\ Count(trace'[i], "buildPlan") <= 1
        /\ planner[i].state = "Unbuilt" /\ CallOf(i, PlanOps)
              => /\ planner'[i].state \in {"Built", "Extracted"}
                 /\ Count(trace'[i], "buildPlan") = 1
                 /\ planner'[i].state = "Built" => planner'[i].query_plan.initialized
        /\ planner[i].state = "Built" /\ CallOf(i, PlanOps)
              => /\ Count(trace'[i], "buildPlan") = Builds(i)
                 /\ planner'[i].state = "Built" => planner'[i] = planner[i]
                 /\ planner'[i].state = "Extracted"
                       => result'[i].value = planner[i].query_plan]_vars

\* Several plan-needing calls have been made and the plan was built once.
C1_Witness ==
    \E i \in Instances :
        /\ planner[i].state = "Built"
        /\ Builds(i) = 1
        /\ Lowerings(i) = 2
        /\ result[i].op = "getSampleBlock"
        /\ result[i].err = "none"

\* C2: after getSampleBlock, execute or buildQueryPipeline has been called the
\* planner is no longer Unbuilt and never is again, and an addStorageLimits
\* call made then fails with LimitsAfterBuild and changes nothing of the
\* planner: neither the built plan nor its limits.
C2_LimitsAfterBuild ==
    [][\A i \in Instances :
        /\ result'[i].op \in {"getSampleBlock", "execute", "buildQueryPipeline"}
              => planner'[i].state \in {"Built", "Extracted"}
        /\ planner[i].state \in {"Built", "Extracted"}
              => planner'[i].state \in {"Built", "Extracted"}
        /\ planner[i].state \in {"Built", "Extracted"} /\ CallOf(i, {"addStorageLimits"})
              => /\ result'[i].err = "LimitsAfterBuild"
                 /\ planner'[i] = planner[i]
                 /\ trace'[i] = trace[i]]_vars

\* Limits were added, the plan was built with them, and a later addition failed.
C2_Witness ==
    \E i \in Instances :
        /\ planner[i].state = "Built"
        /\ planner[i].query_plan.storage_limits = <<"limit1">>
        /\ Lowerings(i) = 1
        /\ result[i].op = "addStorageLimits"
        /\ result[i].err = "LimitsAfterBuild"

\* C3: a call of extractQueryPlan leaves the planner Extracted; Extracted is
\* terminal, and every later call that accesses the plan (extractQueryPlan,
\* getSampleBlock, buildQueryPipeline, execute) fails with PlannerReused,
\* builds nothing and lowers nothing.
C3_ExtractIsOneShot ==
    [][\A i \in Instances :
        /\ result'[i].op = "extractQueryPlan" => planner'[i].state = "Extracted"
        /\ planner[i].state = "Extracted"
              => /\ planner'[i] = planner[i]
                 /\ trace'[i] = trace[i]
                 /\ CallOf(i, PlanOps) => result'[i].err = "PlannerReused"]_vars

\* The plan was extracted and a second extraction failed.
C3_Witness ==
    \E i \in Instances :
        /\ planner[i].state = "Extracted"
        /\ Builds(i) = 1
        /\ result[i].op = "extractQueryPlan"
        /\ result[i].err = "PlannerReused"

\* C4: every lowering is given an initialized plan and comes after the build
\* of the plan of the same instance, so the planner is not Unbuilt when it
\* happens; and a call of getSampleBlock lowers nothing.
C4_LoweringAfterBuild ==
    [][\A i \in Instances :
        /\ \A k \in DOMAIN trace'[i] :
              trace'[i][k].ev = "lower"
                 => /\ trace'[i][k].arg.initialized
                    /\ \E j \in 1..(k - 1) : trace'[i][j].ev = "buildPlan"
        /\ Count(trace'[i], "lower") > Lowerings(i) => planner'[i].state # "Unbuilt"
        /\ CallOf(i, {"getSampleBlock"})
              => Count(trace'[i], "lower") = Lowerings(i)]_vars

\* A pipeline was built by the first call made on an instance.
C4_Witness ==
    \E i \in Instances :
        /\ Lowerings(i) = 1
        /\ Builds(i) = 1
        /\ result[i].op = "buildQueryPipeline"
        /\ result[i].err = "none"
        /\ trace[i][Len(trace[i])].ev = "lower"

\* C5, as stated: an instance lowers at most once.
C5_LoweredAtMostOnce == \A i \in Instances : Lowerings(i) <= 1

\* C5, amended: lowering is invoked once by every buildQueryPipeline or
\* execute call that succeeds, and by nothing else: one call never lowers
\* twice, but an instance lowers as often as it is asked to.
C5_LoweredOncePerCall ==
    [][\A i \in Instances :
        /\ Count(trace'[i], "lower") <= Lowerings(i) + 1
        /\ Count(trace'[i], "lower") > Lowerings(i)
              => result'[i].op \in PipelineOps /\ result'[i].err = "none"
        /\ CallOf(i, PipelineOps) /\ result'[i].err = "none"
              => Count(trace'[i], "lower") = Lowerings(i) + 1]_vars

\* An instance that has lowered its plan twice.
C5_Witness ==
    \E i \in Instances :
        /\ Lowerings(i) = 2
        /\ Builds(i) = 1
        /\ result[i].op = "execute"
        /\ result[i].err = "none"

\* C6: construction from a raw query that is a SelectWithUnion or a Select
\* keeps that very query, and from a Subquery whose only child is one of those
\* keeps the child; a Subquery is unwrapped once, so that what the query tree
\* is built from is its first child, whatever that child is.
C6_Normalization ==
    \A i \in Instances :
        result[i].op = "construct" =>
            LET raw == result[i].arg
            IN  /\ raw.kind \in CanonicalKinds
                      => status[i] = "ready" /\ query[i] = raw
                /\ raw.kind = "Subquery" /\ Len(raw.children) = 1
                         /\ raw.children[1].kind \in CanonicalKinds
                      => status[i] = "ready" /\ query[i] = raw.children[1]
                /\ raw.kind = "Subquery"
                      => \A k \in DOMAIN trace[i] :
                            trace[i][k].ev = "buildQueryTree"
                               => trace[i][k].arg = raw.children[1]

\* A parenthesised select was unwrapped.
C6_Witness ==
    \E i \in Instances :
        /\ result[i].op = "construct"
        /\ status[i] = "ready"
        /\ result[i].arg = Subquery(<<Leaf("Select", "SELECT a, b")>>)
        /\ query[i] = Leaf("Select", "SELECT a, b")

\* C7, as stated: whatever normalization lets through to the query tree
\* builder is a SelectWithUnion or a Select.
C7_CanonicalOnly ==
    \A i \in Instances :
        \A k \in DOMAIN trace[i] :
            trace[i][k].ev = "buildQueryTree" => trace[i][k].arg.kind \in CanonicalKinds

\* C8: construction from a raw query that is no SelectWithUnion, Select or
\* Subquery fails with UNSUPPORTED_METHOD (UnsupportedQueryShape), naming the
\* rendered node, after the normalizer alone has run: no context was copied,
\* no query tree built, no pass run and no planner constructed.
C8_UnsupportedShapeIsFatal ==
    \A i \in Instances :
        result[i].op = "construct" /\ result[i].arg.kind \notin CanonicalKinds \cup {"Subquery"}
           => /\ status[i] = "failed"
              /\ result[i].err = "UNSUPPORTED_METHOD"
              /\ result[i].value = <<result[i].arg.kind, result[i].arg.text>>
              /\ trace[i] = <<Event("normalize", "null", "")>>
              /\ i \notin DOMAIN contexts
              /\ context[i] = "null"
              /\ query_tree[i] = NoTree
              /\ planner[i] = NoPlanner

\* An INSERT was rejected.
C8_Witness ==
    \E i \in Instances :
        /\ status[i] = "failed"
        /\ result[i].op = "construct"
        /\ result[i].arg = Insert
        /\ result[i].err = "UNSUPPORTED_METHOD"

\* C9: no step changes a context object that exists already, the caller's
\* among them; the context of a constructed instance is an object of its own,
\* and the shard scalars are bound in it.
C9_AmbientUnchanged ==
    [][/\ \A c \in DOMAIN contexts : c \in DOMAIN contexts' => contexts'[c] = contexts[c]
       /\ Ambient \in DOMAIN contexts'
       /\ \A i \in Instances :
             status'[i] = "ready"
                => /\ context'[i] # Ambient
                   /\ context'[i] \in DOMAIN contexts'
                   /\ select_query_options'[i].shard_num # <<>>
                         => "_shard_num" \in DOMAIN contexts'[context'[i]].special_scalars]_vars

\* An instance compiled for shard 3 has run, and its caller's context holds
\* no shard scalar.
C9_Witness ==
    \E i \in Instances :
        /\ status[i] = "ready"
        /\ result[i].op = "execute"
        /\ result[i].err = "none"
        /\ "_shard_num" \in DOMAIN PrivateScalars(i)
        /\ PrivateScalars(i)["_shard_num"].value = 3
        /\ DOMAIN contexts[Ambient].special_scalars = {}

ScalarAsStated(i, name, option) ==
    /\ name \in DOMAIN PrivateScalars(i) <=> option # <<>>
    /\ option # <<>>
          => PrivateScalars(i)[name] =
                [name |-> name, type |-> "UInt32", rows |-> 1, value |-> option[1]]

\* C10, as stated: the private context holds a shard scalar exactly when the
\* options give the value, and then with that value.
C10_ScalarsIffOptions ==
    \A i \in Instances :
        status[i] = "ready"
           => /\ ScalarAsStated(i, "_shard_num", select_query_options[i].shard_num)
              /\ ScalarAsStated(i, "_shard_count", select_query_options[i].shard_count)

ScalarAsBuilt(i, name, option) ==
    LET ambient == contexts[Ambient].special_scalars
    IN  IF option # <<>>
        THEN /\ name \in DOMAIN PrivateScalars(i)
             /\ PrivateScalars(i)[name] =
                   [name |-> name, type |-> "UInt32", rows |-> 1, value |-> option[1]]
        ELSE /\ name \in DOMAIN PrivateScalars(i) <=> name \in DOMAIN ambient
             /\ name \in DOMAIN ambient => PrivateScalars(i)[name] = ambient[name]

\* C10, amended: when the options give a shard index (a shard count), 0
\* included, the private context binds the scalar to exactly that value,
\* each independently of the other; when they do not, the private context
\* holds that scalar exactly when the caller's context held it, unchanged.
C10_ScalarsFromOptions ==
    \A i \in Instances :
        status[i] = "ready"
           => /\ ScalarAsBuilt(i, "_shard_num", select_query_options[i].shard_num)
              /\ ScalarAsBuilt(i, "_shard_count", select_query_options[i].shard_count)

\* An instance compiled with shard index 0 and no shard count.
C10_Witness ==
    \E i \in Instances :
        /\ status[i] = "ready"
        /\ select_query_options[i].shard_num = <<0>>
        /\ select_query_options[i].shard_count = <<>>
        /\ PrivateScalars(i)["_shard_num"].value = 0
        /\ "_shard_count" \notin DOMAIN PrivateScalars(i)

\* The passes run on behalf of instance i, in the order they ran.
PassesRun(i) ==
    LET ran == SelectSeq(trace[i], LAMBDA e : e.ev = "pass")
    IN  [k \in DOMAIN ran |-> ran[k].arg]

\* C11: after construction from a raw query with pass-skipping requested, the
\* first registered pass alone has run on the query tree; without it, every
\* registered pass has run once, one after the other in registration order.
C11_PassesRun ==
    \A i \in Instances :
        result[i].op = "construct" /\ status[i] = "ready"
           => LET expected == IF select_query_options[i].ignore_ast_optimizations
                              THEN <<Passes[1]>>
                              ELSE Passes
              IN  /\ PassesRun(i) = expected
                  /\ query_tree[i].passes = expected

\* A query compiled with pass-skipping: the second pass left no mark.
C11_Witness ==
    \E i \in Instances :
        /\ result[i].op = "construct"
        /\ status[i] = "ready"
        /\ select_query_options[i].ignore_ast_optimizations
        /\ PassesRun(i) = <<"QueryAnalysisPass">>
        /\ \A k \in DOMAIN query_tree[i].passes : query_tree[i].passes[k] # "SecondPass"

\* C12: the result of a successful execute carries the quota of the instance's
\* context exactly when the target stage is Complete and quota bypass is not
\* requested; at an intermediate stage, and under quota bypass, it carries
\* no quota.
C12_QuotaAttached ==
    \A i \in Instances :
        result[i].op = "execute" /\ result[i].err = "none"
           => result[i].value.quota =
                 IF select_query_options[i].to_stage = "Complete"
                       /\ ~select_query_options[i].ignore_quota
                 THEN <<contexts[context[i]].quota>>
                 ELSE <<>>

\* A query executed up to an intermediate stage, quota not bypassed.
C12_Witness ==
    \E i \in Instances :
        /\ result[i].op = "execute"
        /\ result[i].err = "none"
        /\ select_query_options[i].to_stage = "WithMergeableState"
        /\ ~select_query_options[i].ignore_quota
        /\ result[i].value.quota = <<>>
        /\ result[i].value.pipeline.plan.initialized

\* C13: the successful getSampleBlock calls made on an instance, whatever
\* calls came between them, all returned one and the same schema.
C13_SchemaIsStable ==
    \A i \in Instances :
        \A s1, s2 \in observed[i].schemas : s1[1] = s2[1]

\* The schema was asked for before any pipeline was built and again after two
\* were.
C13_Witness ==
    \E i \in Instances :
        /\ observed[i].schemas = {<<<<"a", "b">>, 0>>, <<<<"a", "b">>, 2>>}
        /\ observed[i].pipelines = 2
        /\ result[i].op = "getSampleBlock"

\* The schema the last call on instance i returned, if that call was a
\* getSampleBlock that succeeded.
SchemaReturned(i) ==
    IF result[i].op = "getSampleBlock" /\ result[i].err = "none"
    THEN <<result[i].value>>
    ELSE <<>>

\* Instance i is the analyze-only compilation of what instance j compiles in
\* full: the same query and, but for that flag, the same options.  (The
\* caller's context is the same for all.)
AnalyzeOnlyTwin(i, j) ==
    /\ status[i] = "ready" /\ status[j] = "ready"
    /\ query[i] = query[j]
    /\ select_query_options[i].only_analyze
    /\ ~select_query_options[j].only_analyze
    /\ select_query_options[i] = [select_query_options[j] EXCEPT !.only_analyze = TRUE]

StagesRun(i) == [k \in DOMAIN trace[i] |-> trace[i][k].ev]

\* C15: construction from a resolved query tree calls neither the normalizer
\* nor the query tree builder nor any pass: the tree the instance and its
\* planner hold is the tree that was given.  It derives the query from the
\* tree, copies the caller's context and binds the shard scalars in the
\* copy as construction from a raw query does, and the planner it makes is a
\* new one, Unbuilt, configured from the options.
C15_FromResolvedTree ==
    \A i \in Instances :
        result[i].op = "constructFromTree"
           => LET given == result[i].arg
              IN  /\ status[i] = "ready"
                  /\ StagesRun(i) = <<"toAST", "buildContext", "Planner">>
                  /\ query_tree[i] = given
                  /\ planner[i].query_tree = given
                  /\ query[i].kind \in CanonicalKinds
                  /\ query[i].text = given.text
                  /\ context[i] \in DOMAIN contexts \ {Ambient}
                  /\ ScalarAsBuilt(i, "_shard_num", select_query_options[i].shard_num)
                  /\ ScalarAsBuilt(i, "_shard_count", select_query_options[i].shard_count)
                  /\ planner[i].state = "Unbuilt"
                  /\ planner[i].storage_limits = <<>>
                  /\ planner[i].config.only_analyze = select_query_options[i].only_analyze

\* An instance made from a resolved tree for shard 3 of 8, with pass-skipping
\* requested: the tree still carries every pass of its earlier compilation.
C15_Witness ==
    \E i \in Instances :
        /\ result[i].op = "constructFromTree"
        /\ status[i] = "ready"
        /\ select_query_options[i].ignore_ast_optimizations
        /\ query_tree[i].passes = Passes
        /\ query[i] = Leaf("Select", "SELECT a, b")
        /\ select_query_options[i].shard_num = <<3>>
        /\ select_query_options[i].shard_count = <<8>>
        /\ PrivateScalars(i)["_shard_num"].value = 3
        /\ PrivateScalars(i)["_shard_count"].value = 8

StaticOps == {"getSampleBlockOfAST", "getSampleBlockOfTree"}

\* C16: a static getSampleBlock, whatever mode the options it is given ask
\* for, compiles an instance of its own with only_analyze set and otherwise
\* the caller's options, returns what getSampleBlock() of that instance
\* returns, the header of its plan, and lowers nothing; the caller's options
\* are afterwards what they were, and so is every context object: the
\* caller's is unchanged and the instance's is gone.
C16_SchemaOnlyEntry ==
    [][\A i \in Instances :
        result'[i].op \in StaticOps /\ status[i] = "none"
           => /\ result'[i].arg.after = result'[i].arg.given
              /\ contexts' = contexts
              /\ Count(trace'[i], "lower") = 0
              /\ status'[i] = "discarded"
                    => /\ select_query_options'[i] =
                             [result'[i].arg.given EXCEPT !.only_analyze = TRUE]
                       /\ planner'[i].config.only_analyze
                       /\ planner'[i].state = "Built"
                       /\ planner'[i].query_plan.only_analyze
                       /\ result'[i].err = "none"
                       /\ result'[i].value = planner'[i].query_plan.header
                       /\ Count(trace'[i], "buildPlan") = 1
              /\ status'[i] # "discarded"
                    => /\ status'[i] = "failed"
                       /\ result'[i].err # "none"]_vars

\* The schema of a parenthesised query, asked for with options that ask for
\* full execution on shard 3 of 8.
C16_Witness ==
    \E i \in Instances :
        /\ result[i].op = "getSampleBlockOfAST"
        /\ status[i] = "discarded"
        /\ result[i].arg.query = Subquery(<<Leaf("Select", "SELECT a, b")>>)
        /\ ~result[i].arg.given.only_analyze
        /\ result[i].arg.given.shard_num = <<3>>
        /\ ~result[i].arg.after.only_analyze
        /\ result[i].value = <<"a", "b">>
        /\ DOMAIN contexts = {Ambient}

\* C17: an addStorageLimits call made while the planner is Unbuilt succeeds
\* and appends its limits to the pending list, so that the pending list is
\* the limits the caller has added, in the order of adding; the build of the
\* plan is given exactly those, and the plan carries exactly those.
C17_LimitsCarried ==
    \A i \in Instances :
        status[i] = "ready"
           => /\ result[i].op = "addStorageLimits" /\ result[i].err # "none"
                    => planner[i].state # "Unbuilt"
              /\ planner[i].state = "Unbuilt"
                    => planner[i].storage_limits = observed[i].added
              /\ \A k \in DOMAIN trace[i] :
                    trace[i][k].ev = "buildPlan" => trace[i][k].arg = observed[i].added
              /\ planner[i].state = "Built"
                    => planner[i].query_plan.storage_limits = observed[i].added

\* Two limits were added by two calls, and the plan built then carries both
\* in that order.
C17_Witness ==
    \E i \in Instances :
        /\ planner[i].state = "Built"
        /\ observed[i].added = <<"limit2", "limit1">>
        /\ planner[i].query_plan.storage_limits = <<"limit2", "limit1">>
        /\ observed[i].pipelines = 1

\* C18: the lowerings made for an instance are as many as the pipelines its
\* buildQueryPipeline and execute calls have returned, one for each; they all
\* come after the one build of the plan, are all given that plan, the cached
\* one, and take their settings from the instance's own context.
C18_LoweringPerCall ==
    \A i \in Instances :
        status[i] = "ready"
           => /\ Lowerings(i) = observed[i].pipelines
              /\ observed[i].pipelines > 0 => Builds(i) = 1
              /\ \A k \in DOMAIN trace[i] :
                    trace[i][k].ev = "lower"
                       => /\ trace[i][k].ctx = context[i]
                          /\ trace[i][k].ctx # Ambient
                          /\ trace[i][k].arg.initialized
                          /\ planner[i].state = "Built"
                                => trace[i][k].arg = planner[i].query_plan
                          /\ \A j \in DOMAIN trace[i] :
                                trace[i][j].ev = "lower"
                                   => trace[i][j].arg = trace[i][k].arg
                          /\ \E j \in 1..(k - 1) : trace[i][j].ev = "buildPlan"

\* A buildQueryPipeline call and an execute call on one instance: two
\* pipelines, two lowerings, one build.
C18_Witness ==
    \E i \in Instances :
        /\ observed[i].pipelines = 2
        /\ Lowerings(i) = 2
        /\ Builds(i) = 1
        /\ planner[i].state = "Built"
        /\ result[i].op = "execute"
        /\ result[i].err = "none"
        /\ observed[i].schemas = {}

\* The stages of construction from a raw query, in the order of the member
\* initialisers.
StagesInOrder ==
    <<"normalize", "buildContext", "buildQueryTree">>
        \o [k \in DOMAIN Passes |-> "pass"] \o <<"Planner">>

\* C19: construction from a raw query calls the normalizer, the context
\* builder, the query tree builder, the passes and the Planner constructor in
\* that order, as far as it gets; the query tree builder and every pass are
\* given the instance's own context, never the caller's, and that context
\* holds the shard scalars of the options; and once the instance is
\* constructed no operation changes its query tree, which is the tree its
\* planner holds.
C19_StagesInOrder ==
    [][\A i \in Instances :
        /\ status[i] = "none" /\ result'[i].op = "construct"
              => /\ \E n \in 1..Len(StagesInOrder) :
                       [k \in DOMAIN trace'[i] |-> trace'[i][k].ev]
                          = SubSeq(StagesInOrder, 1, n)
                 /\ status'[i] = "ready"
                       => /\ Len(trace'[i]) = Len(StagesInOrder)
                          /\ \A k \in DOMAIN trace'[i] :
                                trace'[i][k].ev \in {"buildQueryTree", "pass"}
                                   => /\ trace'[i][k].ctx = context'[i]
                                      /\ trace'[i][k].ctx # Ambient
                          /\ query_tree'[i].context = context'[i]
                          /\ LET o == select_query_options'[i]
                                 scalars == contexts'[context'[i]].special_scalars
                             IN  /\ o.shard_num # <<>>
                                       => scalars["_shard_num"].value = o.shard_num[1]
                                 /\ o.shard_count # <<>>
                                       => scalars["_shard_count"].value = o.shard_count[1]
        /\ status[i] = "ready"
              => /\ query_tree'[i] = query_tree[i]
                 /\ planner'[i].query_tree = query_tree[i]]_vars

\* An instance compiled from a raw query for shard 3 of 8 and then run: its
\* tree was built with its own context, which holds the shard scalars.
C19_Witness ==
    \E i \in Instances :
        /\ status[i] = "ready"
        /\ result[i].op = "execute"
        /\ result[i].err = "none"
        /\ trace[i][1].ev = "normalize"
        /\ trace[i][3].ev = "buildQueryTree"
        /\ trace[i][3].ctx = context[i]
        /\ query_tree[i].passes = Passes
        /\ select_query_options[i].shard_num = <<3>>
        /\ PrivateScalars(i)["_shard_num"].value = 3

\* This step is an operation on instance i: its construction, or a call that
\* changed something of it or ended otherwise than the call before.
OperationOn(i) ==
    <<status'[i], planner'[i], trace'[i], result'[i].op, result'[i].err>>
       # <<status[i], planner[i], trace[i], result[i].op, result[i].err>>

\* This step left instance j as it was: its members, its planner (state,
\* pending limits and cached plan) and the context object it owns.
Untouched(j) ==
    /\ status'[j] = status[j]
    /\ query'[j] = query[j]
    /\ select_query_options'[j] = select_query_options[j]
    /\ query_tree'[j] = query_tree[j]
    /\ planner'[j] = planner[j]
    /\ trace'[j] = trace[j]
    /\ context'[j] = context[j]
    /\ status[j] = "ready"
          => /\ context[j] \in DOMAIN contexts'
             /\ contexts'[context[j]] = contexts[context[j]]

\* C20: a step is an operation on one instance at most, and it leaves the
\* other instance untouched: its planner state, pending limits, cached plan
\* and the bindings of its context; and no step changes the caller's context.
C20_InstancesIndependent ==
    [][/\ \A i, j \in Instances : i # j /\ OperationOn(i) => Untouched(j)
       /\ contexts'[Ambient] = contexts[Ambient]
       /\ \A i, j \in Instances :
             i # j /\ status'[i] = "ready" /\ status'[j] = "ready"
                => /\ context'[i] # context'[j]
                   /\ context'[i] # Ambient]_vars

\* Two instances, one compiled for shard 3 of 8, used in turn: one has built
\* its plan with a limit and lowered it, the other's plan was extracted.
C20_Witness ==
    \E i, j \in Instances :
        /\ i # j
        /\ planner[i].state = "Built"
        /\ planner[i].query_plan.storage_limits = <<"limit1", "limit2">>
        /\ Lowerings(i) = 1
        /\ DOMAIN PrivateScalars(i) = DOMAIN contexts[Ambient].special_scalars
        /\ planner[j].state = "Extracted"
        /\ planner[j].storage_limits = <<>>
        /\ select_query_options[j].shard_num = <<3>>
        /\ PrivateScalars(j)["_shard_num"].value = 3

====
